---- MODULE Spec2Model ----
(***************************************************************************)
(* A model of sfdc_bulk/api.py: the SalesforceBulkAPI job/batch lifecycle. *)
(*                                                                         *)
(* The class keeps its registry and caches in class attributes (jobs,      *)
(* batches, job_statuses, batch_statuses).  Every public method is one     *)
(* action; the remote system's answers are drawn nondeterministically at   *)
(* each request.  A method is modelled as an operator that maps the world  *)
(* before the call to the SET of runs the remote system's answers allow;   *)
(* a run is [w |-> world after, result |-> what the call returned/raised]. *)
(***************************************************************************)
EXTENDS Integers, Sequences, FiniteSets, TLC

VARIABLES
    jobs,            \* SalesforceBulkAPI.jobs: list of job ids
    batches,         \* SalesforceBulkAPI.batches: ordered dict job_id -> [batch_id, ...]
    job_statuses,    \* SalesforceBulkAPI.job_statuses: dict id -> parsed status
    batch_statuses,  \* SalesforceBulkAPI.batch_statuses: dict id -> parsed status
    batch_size,      \* self.batch_size
    remote,          \* the remote system: how many job and batch ids it has handed out
    issued,          \* <<job_id, batch_id>> pairs the remote system returned for a batch submission
    instance,        \* the SalesforceBulkAPI object whose method ran most recently
    call             \* the most recent method call: op, args, result, trace of requests

vars == <<jobs, batches, job_statuses, batch_statuses, batch_size, remote, issued,
          instance, call>>

-----------------------------------------------------------------------------
(* Bounds of the model *)

MaxJobs == 2
MaxBatches == 2
MaxRows == 2
BatchSize == 2
MaxChunkRows == 13
MaxChunkBatchSize == 7
MaxTimeout == 2
MaxJobTimeout == 1
MaxInterval == 2
MaxResults == 2
NumInstances == 2
\* within one method call the remote system chooses its answer to a status
\* request about an object freely this many times; after that it repeats its
\* last answer about the object until the call ends
MaxAnswers == 2

-----------------------------------------------------------------------------
(* Module constants of api.py *)

\* the default timeout and sleep_interval of wait_for_batch and of wait_for_job
DefaultBatchTimeout == 600
DefaultBatchInterval == 10
DefaultJobTimeout == 3600
DefaultJobInterval == 30

ERROR_STATES == {"Failed", "Not Processed"}
PENDING_STATES == {"InProcess", "Queued"}
\* ('Completed') is a parenthesised string, not a tuple
COMPLETED_STATES == "Completed"

-----------------------------------------------------------------------------
(* Python values *)

JobId(n) == <<"job", n>>
BatchId(n) == <<"batch", n>>
JobIds == {JobId(n) : n \in 1..MaxJobs}
BatchIds == {BatchId(n) : n \in 1..MaxBatches}

Returned(v) == [kind |-> "return", value |-> v]
Raised(e) == [kind |-> "raise", exc |-> e]

\* the record of a method call; before the first call there is none
Call(op, args, result, trace) == [op |-> op, args |-> args, result |-> result, trace |-> trace]
NoCall == Call("none", <<>>, Returned("None"), <<>>)

\* dict as a function: d[k] = v
DictPut(d, k, v) == [x \in (DOMAIN d) \cup {k} |-> IF x = k THEN v ELSE d[x]]

\* ordered dict as a sequence of entries, in insertion order
ODictHas(d, k) == \E i \in 1..Len(d) : d[i].key = k
ODictGet(d, k) == d[CHOOSE i \in 1..Len(d) : d[i].key = k].val
ODictPut(d, k, v) ==
    IF ODictHas(d, k)
    THEN [i \in 1..Len(d) |-> IF d[i].key = k THEN [key |-> k, val |-> v] ELSE d[i]]
    ELSE Append(d, [key |-> k, val |-> v])

SeqHas(s, x) == \E i \in 1..Len(s) : s[i] = x

\* s in COMPLETED_STATES: COMPLETED_STATES is a string, so Python's "in" is the
\* substring test; s is a substring iff prefix \o s \o suffix spells the string.
\* CompletedPrefixes[i + 1] and CompletedSuffixes[i + 1] have i characters.
CompletedPrefixes == <<"", "C", "Co", "Com", "Comp", "Compl", "Comple", "Complet",
                       "Complete", "Completed">>
CompletedSuffixes == <<"", "d", "ed", "ted", "eted", "leted", "pleted", "mpleted",
                       "ompleted", "Completed">>
InCompletedStates(s) ==
    \E i \in 0..(Len(COMPLETED_STATES) - Len(s)) :
        CompletedPrefixes[i + 1] \o s
            \o CompletedSuffixes[Len(COMPLETED_STATES) - Len(s) - i + 1] = COMPLETED_STATES

\* the exceptions the code raises
BulkApiError(status_code) == [type |-> "BulkApiError", status_code |-> status_code]
BulkBatchFailed(job_id, batch_id, state_message) ==
    [type |-> "BulkBatchFailed", job_id |-> job_id, batch_id |-> batch_id,
     state_message |-> state_message]
KeyError(key) == [type |-> "KeyError", key |-> key]
UnknownBatch(batch_id) == [type |-> "Exception", message |-> "batch id is uknown", id |-> batch_id]
NoBatches(job_id) == [type |-> "Exception", message |-> "job does not have any batches", id |-> job_id]

IsReturn(r) == r.kind = "return"
IsRaise(r) == r.kind = "raise"

-----------------------------------------------------------------------------
(* The remote system's answers *)

StatusCodes == {200, 400}

\* the body of a status answer: the children <tag>text</tag> of the root element
BatchStatusBodies ==
    { << <<"state", "Queued">> >>,
      << <<"state", "Completed">> >>,
      << <<"state", "Failed">>, <<"stateMessage", "msg">> >>,
      << <<"state", "NotProcessed">>, <<"stateMessage", "msg">> >>,
      << <<"stateMessage", "msg">> >> }
JobStatusBodies == { << <<"state", "Open">> >> }

StatusBodies(obj_type) == IF obj_type = "job" THEN JobStatusBodies ELSE BatchStatusBodies

Responses(bodies) ==
    {[status_code |-> 200, body |-> b] : b \in bodies}
        \cup {[status_code |-> 400, body |-> <<>>]}

-----------------------------------------------------------------------------
(* The world a method runs in *)

World == [jobs |-> jobs, batches |-> batches, job_statuses |-> job_statuses,
          batch_statuses |-> batch_statuses, batch_size |-> batch_size,
          remote |-> remote, issued |-> issued, self |-> instance, trace |-> <<>>,
          asked |-> <<>>]

Run(w, r) == [w |-> w, result |-> r]

\* requests.get / requests.post / time.sleep leave an event in the trace
Sent(w, ev) == [w EXCEPT !.trace = Append(@, ev)]

-----------------------------------------------------------------------------
(* Utility methods *)

\* check_status raising for the server errors only
check_status_from_500(status_code) ==
    IF status_code >= 500 THEN Raised(BulkApiError(status_code)) ELSE Returned("None")

\* check_status: the exception it raises, or a normal return
check_status(status_code) ==
    IF status_code >= 400 THEN Raised(BulkApiError(status_code)) ELSE Returned("None")

\* lookup_job_id with the return moved out of the membership test: it answers
\* with the first key of the dict as soon as some list holds batch_id
lookup_job_id_first_key(w, batch_id) ==
    IF \E i \in 1..Len(w.batches) : SeqHas(w.batches[i].val, batch_id)
    THEN Returned(w.batches[1].key)
    ELSE Raised(UnknownBatch(batch_id))

\* lookup_job_id: the first job, in the dict's key order, whose list holds batch_id
lookup_job_id(w, batch_id) ==
    LET hits == {i \in 1..Len(w.batches) : SeqHas(w.batches[i].val, batch_id)}
    IN  IF hits # {}
        THEN Returned(w.batches[CHOOSE i \in hits : \A j \in hits : i <= j].key)
        ELSE Raised(UnknownBatch(batch_id))

\* parse_xml: one dict entry per child tag, a later child overwriting an earlier one
parse_xml(xml) ==
    [t \in {xml[i][1] : i \in 1..Len(xml)} |->
        xml[CHOOSE i \in 1..Len(xml) :
                /\ xml[i][1] = t
                /\ \A j \in 1..Len(xml) : xml[j][1] = t => j <= i][2]]

-----------------------------------------------------------------------------
(* Monitoring jobs *)

StatusUrl(obj_id) == <<"job", obj_id>>
BatchStatusUrl(job_id, obj_id) == <<"job", job_id, "batch", obj_id>>
\* a status request, with the answer the remote system gave to it
Get(url, resp) == [method |-> "GET", url |-> url, reply |-> resp]

\* the remote system remembers, for the length of one call, how often it was
\* asked for `url` (it counts up to MaxAnswers) and what it answered last
Asked(w, url, resp) ==
    LET n == IF url \in DOMAIN w.asked THEN w.asked[url].n ELSE 0
    IN  [w EXCEPT !.asked = DictPut(@, url, [n |-> IF n < MaxAnswers THEN n + 1 ELSE n,
                                             last |-> resp])]

\* the answers the remote system may give to the status request for `url`, given
\* the requests the call has made so far
StatusAnswers(w, url, obj_type) ==
    IF url \in DOMAIN w.asked /\ w.asked[url].n >= MaxAnswers
    THEN {w.asked[url].last}
    ELSE Responses(StatusBodies(obj_type))

\* lines 116-121 of get_status: the request, check_status, parse and store
get_status_fetch(w, obj_id, url, resp) ==
    LET w1 == Asked(Sent(w, Get(url, resp)), url, resp)
        chk == check_status(resp.status_code)
        req2 == parse_xml(resp.body)
    IN  IF IsRaise(chk)
        THEN Run(w1, chk)
        ELSE Run([w1 EXCEPT !.job_statuses = DictPut(@, obj_id, req2)], Returned(req2))

get_status(w, obj_id, obj_type, reload) ==
    IF obj_type = "job"
    THEN IF ~reload /\ obj_id \in DOMAIN w.job_statuses
         THEN {Run(w, Returned(w.job_statuses[obj_id]))}
         ELSE {get_status_fetch(w, obj_id, StatusUrl(obj_id), resp) :
                    resp \in StatusAnswers(w, StatusUrl(obj_id), obj_type)}
    ELSE IF ~reload /\ obj_id \in DOMAIN w.batch_statuses
         THEN {Run(w, Returned(w.batch_statuses[obj_id]))}
         ELSE LET job_id == lookup_job_id(w, obj_id)
              IN  IF IsRaise(job_id)
                  THEN {Run(w, job_id)}
                  ELSE {get_status_fetch(w, obj_id, BatchStatusUrl(job_id.value, obj_id), resp) :
                            resp \in StatusAnswers(w, BatchStatusUrl(job_id.value, obj_id),
                                                   obj_type)}

\* lines 130-139 of is_batch_done: what it makes of the status get_status returned
is_batch_done_decide(w, batch_id, batch_status) ==
    IF "state" \notin DOMAIN batch_status
    THEN Run(w, Raised(KeyError("state")))
    ELSE LET batch_state == batch_status["state"]
         IN  IF batch_state \in ERROR_STATES
             THEN \* the arguments of BulkBatchFailed are evaluated left to right:
                  \* lookup_job_id first, batch_status['stateMessage'] second
                  LET job_id == lookup_job_id(w, batch_id)
                  IN  IF IsRaise(job_id)
                      THEN Run(w, job_id)
                      ELSE IF "stateMessage" \notin DOMAIN batch_status
                      THEN Run(w, Raised(KeyError("stateMessage")))
                      ELSE Run(w, Raised(BulkBatchFailed(job_id.value, batch_id,
                                                         batch_status["stateMessage"])))
             ELSE Run(w, Returned(InCompletedStates(batch_state)))

is_batch_done(w, batch_id) ==
    IF batch_id \in DOMAIN w.batch_statuses
       /\ "state" \notin DOMAIN w.batch_statuses[batch_id]
    THEN {Run(w, Raised(KeyError("state")))}
    ELSE IF batch_id \in DOMAIN w.batch_statuses
            /\ InCompletedStates(w.batch_statuses[batch_id]["state"])
    THEN {Run(w, Returned(TRUE))}
    ELSE {IF IsRaise(r.result)
          THEN r
          ELSE is_batch_done_decide(r.w, batch_id, r.result.value) :
                r \in get_status(w, batch_id, "batch", TRUE)}

\* the loop of is_job_done without its break: after a batch that is not done it
\* goes on to check the batches registered after it
RECURSIVE is_job_done_loop_no_break(_, _, _)
is_job_done_loop_no_break(w, bs, i) ==
    IF i > Len(bs)
    THEN {Run(w, Returned(TRUE))}
    ELSE UNION {IF IsRaise(r.result)
                THEN {r}
                ELSE IF ~r.result.value
                THEN {IF IsRaise(x.result) THEN x ELSE Run(x.w, Returned(FALSE)) :
                        x \in is_job_done_loop_no_break(r.w, bs, i + 1)}
                ELSE is_job_done_loop_no_break(r.w, bs, i + 1) :
                    r \in is_batch_done(w, bs[i])}

\* the loop of is_job_done over self.batches[job_id], from position i
RECURSIVE is_job_done_loop(_, _, _)
is_job_done_loop(w, bs, i) ==
    IF i > Len(bs)
    THEN {Run(w, Returned(TRUE))}
    ELSE UNION {IF IsRaise(r.result)
                THEN {r}
                ELSE IF ~r.result.value
                THEN {Run(r.w, Returned(FALSE))}
                ELSE is_job_done_loop(r.w, bs, i + 1) :
                    r \in is_batch_done(w, bs[i])}

\* except KeyError: any KeyError from inside the try block becomes the
\* "does not have any batches" exception
is_job_done(w, job_id) ==
    IF ~ODictHas(w.batches, job_id)
    THEN {Run(w, Raised(NoBatches(job_id)))}
    ELSE {IF IsRaise(r.result) /\ r.result.exc.type = "KeyError"
          THEN Run(r.w, Raised(NoBatches(job_id)))
          ELSE r :
                r \in is_job_done_loop(w, ODictGet(w.batches, job_id), 1)}

\* time.sleep(sleep_interval)
Sleep(sleep_interval) == [method |-> "SLEEP", url |-> <<>>, seconds |-> sleep_interval]

\* A while loop is run pass by pass over all its runs at once: `live` holds the
\* runs that are inside the loop, each with the seconds it has slept so far, and
\* `done` the runs that have left it.
Looping == [kind |-> "loop"]
Pass(w, waited, result) == [w |-> w, waited |-> waited, result |-> result]
LoopStart(w) == [live |-> {Pass(w, 0, Looping)}, done |-> {}]
LoopAfter(loop, passes) ==
    [live |-> {s \in passes : s.result = Looping},
     done |-> loop.done \cup {s \in passes : s.result # Looping}]

\* a pass that goes on adds sleep_interval to waited and needs waited < timeout (or
\* at most waited = timeout): after this many passes no run is inside the loop
MaxPasses(timeout, sleep_interval) == timeout \div sleep_interval + 2

\* k copies of the events `seg`, one after the other
RECURSIVE Repeat(_, _)
Repeat(seg, k) ==
    IF k = 0 THEN <<>>
    ELSE IF k % 2 = 1 THEN seg \o Repeat(seg, k - 1)
    ELSE LET half == Repeat(seg, k \div 2) IN half \o half

\* the pass from s to t has left the instance and the remote system as they were:
\* it was the only way the pass could go, it stays in the loop, and only the trace
\* and the time slept have grown
ComesRound(s, t) ==
    /\ t.result = Looping
    /\ [t.w EXCEPT !.trace = <<>>] = [s.w EXCEPT !.trace = <<>>]

\* A pass reads the instance, the remote system and `waited`, never the trace.  A
\* run that came round from s to t therefore makes the requests and the sleep of
\* that pass again in each later pass it enters with waited < timeout; Onward takes
\* it through those passes in one step.  `next` is what the pass made of s.
Onward(s, next, timeout, sleep_interval) ==
    IF \E t \in next : next = {t} /\ ComesRound(s, t)
    THEN LET t == CHOOSE x \in next : TRUE
             seg == SubSeq(t.w.trace, Len(s.w.trace) + 1, Len(t.w.trace))
             k == IF t.waited < timeout
                  THEN (timeout - t.waited + sleep_interval - 1) \div sleep_interval
                  ELSE 0
         IN  {Pass([t.w EXCEPT !.trace = @ \o Repeat(seg, k)],
                   t.waited + k * sleep_interval, Looping)}
    ELSE next

\* wait_for_batch with a timeout error: the pass raises when the time is up
wait_for_batch_pass_raising(s, batch_id, timeout, sleep_interval) ==
    {IF IsRaise(r.result) THEN Pass(r.w, s.waited, r.result)
     ELSE IF r.result.value THEN Pass(r.w, s.waited, Returned("None"))
     ELSE IF ~(s.waited < timeout) THEN Pass(r.w, s.waited, Raised([type |-> "TimeoutError"]))
     ELSE Pass(Sent(r.w, Sleep(sleep_interval)), s.waited + sleep_interval, Looping) :
        r \in is_batch_done(s.w, batch_id)}

\* one pass of the while loop of wait_for_batch: the done-check comes first, the
\* comparison with the timeout second, then the sleep
wait_for_batch_pass(s, batch_id, timeout, sleep_interval) ==
    {IF IsRaise(r.result) THEN Pass(r.w, s.waited, r.result)
     ELSE IF r.result.value \/ ~(s.waited < timeout) THEN Pass(r.w, s.waited, Returned("None"))
     ELSE Pass(Sent(r.w, Sleep(sleep_interval)), s.waited + sleep_interval, Looping) :
        r \in is_batch_done(s.w, batch_id)}

\* the while loop of wait_for_batch, run for n passes
RECURSIVE wait_for_batch_loop(_, _, _, _, _)
wait_for_batch_loop(loop, batch_id, timeout, sleep_interval, n) ==
    IF n = 0 \/ loop.live = {}
    THEN loop
    ELSE IF n = 1
    THEN LoopAfter(loop, UNION {Onward(s, wait_for_batch_pass(s, batch_id, timeout, sleep_interval),
                                       timeout, sleep_interval) : s \in loop.live})
    ELSE LET half == wait_for_batch_loop(loop, batch_id, timeout, sleep_interval, n \div 2)
         IN  wait_for_batch_loop(half, batch_id, timeout, sleep_interval, n - n \div 2)

wait_for_batch(w, batch_id, timeout, sleep_interval) ==
    {Run(s.w, s.result) :
        s \in wait_for_batch_loop(LoopStart(w), batch_id, timeout, sleep_interval,
                                  MaxPasses(timeout, sleep_interval)).done}

\* wait_for_job with the comparison `waited <= timeout`: one more sleep and check
wait_for_job_pass_one_more(s, job_id, timeout, sleep_interval) ==
    {IF IsRaise(r.result) THEN Pass(r.w, s.waited, r.result)
     ELSE IF r.result.value \/ ~(s.waited <= timeout) THEN Pass(r.w, s.waited, Returned("None"))
     ELSE Pass(Sent(r.w, Sleep(sleep_interval)), s.waited + sleep_interval, Looping) :
        r \in is_job_done(s.w, job_id)}

\* one pass of the while loop of wait_for_job
wait_for_job_pass(s, job_id, timeout, sleep_interval) ==
    {IF IsRaise(r.result) THEN Pass(r.w, s.waited, r.result)
     ELSE IF r.result.value \/ ~(s.waited < timeout) THEN Pass(r.w, s.waited, Returned("None"))
     ELSE Pass(Sent(r.w, Sleep(sleep_interval)), s.waited + sleep_interval, Looping) :
        r \in is_job_done(s.w, job_id)}

\* the while loop of wait_for_job, run for n passes
RECURSIVE wait_for_job_loop(_, _, _, _, _)
wait_for_job_loop(loop, job_id, timeout, sleep_interval, n) ==
    IF n = 0 \/ loop.live = {}
    THEN loop
    ELSE IF n = 1
    THEN LoopAfter(loop, UNION {Onward(s, wait_for_job_pass(s, job_id, timeout, sleep_interval),
                                       timeout, sleep_interval) : s \in loop.live})
    ELSE LET half == wait_for_job_loop(loop, job_id, timeout, sleep_interval, n \div 2)
         IN  wait_for_job_loop(half, job_id, timeout, sleep_interval, n - n \div 2)

wait_for_job(w, job_id, timeout, sleep_interval) ==
    {Run(s.w, s.result) :
        s \in wait_for_job_loop(LoopStart(w), job_id, timeout, sleep_interval,
                                MaxPasses(timeout, sleep_interval)).done}

-----------------------------------------------------------------------------
(* Chunking *)

\* a dataset of n rows with the default index: the rows carry the labels 0..n-1
DataFrame(n) == [i \in 1..n |-> i - 1]

\* df.loc[a:b, :] slices by label, and includes both end labels
loc(df, a, b) ==
    LET InSlice(label) == a <= label /\ label <= b
    IN  SelectSeq(df, InSlice)

df_chunks(df, bsize) ==
    LET n_chunks == (Len(df) \div bsize) + 1
    IN  [c \in 1..n_chunks |-> loc(df, (c - 1) * bsize, c * bsize)]

-----------------------------------------------------------------------------
(* Creating and closing jobs *)

Post(url, data) == [method |-> "POST", url |-> url, data |-> data]

\* a POST request, with the answer the remote system gave to it
Posted(url, data, resp) == [method |-> "POST", url |-> url, data |-> data, reply |-> resp]

\* the remote system answers a job creation with a job document that carries a
\* job id it has not used before, or refuses with 400; an answer in the 300s
\* (one that requests does not follow) may carry a job document or none
CreateResponses(w) ==
    LET jobInfo == << <<"id", JobId(w.remote.jobs + 1)>> >>
    IN  {[status_code |-> 200, body |-> jobInfo],
         [status_code |-> 300, body |-> jobInfo],
         [status_code |-> 300, body |-> <<>>],
         [status_code |-> 400, body |-> <<>>]}

create_job_reply(w, resp) ==
    LET w1 == Sent(w, Posted(<<"job">>, "jobInfo", resp))
        chk == check_status(resp.status_code)
        doc == parse_xml(resp.body)
    IN  IF IsRaise(chk)
        THEN Run(w1, chk)
        ELSE IF "id" \notin DOMAIN doc
        THEN Run(w1, Raised(KeyError("id")))
        ELSE Run([w1 EXCEPT !.remote.jobs = @ + 1,
                            !.jobs = Append(@, doc["id"]),
                            !.batches = ODictPut(@, doc["id"], <<>>)],
                 Returned(doc["id"]))

create_job(w) == {create_job_reply(w, resp) : resp \in CreateResponses(w)}

close_job_reply(w, job_id, status_code) ==
    Run(Sent(w, Post(StatusUrl(job_id), "Closed")), check_status(status_code))

close_job(w, job_id) == {close_job_reply(w, job_id, status_code) : status_code \in StatusCodes}

-----------------------------------------------------------------------------
(* Submitting batches *)

BatchUrl(job_id) == <<"job", job_id, "batch">>

\* the remote system accepts a batch only for a job it has created, and answers
\* with a batch id it has not used before
SubmitCodes(w, job_id) ==
    IF \E n \in 1..w.remote.jobs : job_id = JobId(n) THEN StatusCodes ELSE {400}

\* lines 253-257 and 319-323: post the batch, check_status, read the batch id
submit_batch(w, job_id, data, status_code) ==
    LET w1 == Sent(w, Post(BatchUrl(job_id), data))
        chk == check_status(status_code)
        batch_id == BatchId(w.remote.batches + 1)
    IN  IF IsRaise(chk)
        THEN Run(w1, chk)
        ELSE Run([w1 EXCEPT !.remote.batches = @ + 1,
                            !.issued = @ \cup {<<job_id, batch_id>>}],
                 Returned(batch_id))

\* append_batch putting the new id at the head of the list
append_batch_at_head(w, job_id, batch_id) ==
    IF ~ODictHas(w.batches, job_id)
    THEN Run(w, Raised(KeyError(job_id)))
    ELSE Run([w EXCEPT !.batches = ODictPut(@, job_id, <<batch_id>> \o ODictGet(@, job_id))],
             Returned("None"))

\* self.batches[job_id].append(batch_id)
append_batch(w, job_id, batch_id) ==
    IF ~ODictHas(w.batches, job_id)
    THEN Run(w, Raised(KeyError(job_id)))
    ELSE Run([w EXCEPT !.batches = ODictPut(@, job_id, Append(ODictGet(@, job_id), batch_id))],
             Returned("None"))

\* query: after create_query_job, post the batch, close the job, then register
query_submit(w, job_id, soql) ==
    UNION {IF IsRaise(s.result)
           THEN {s}
           ELSE {IF IsRaise(c.result)
                 THEN c
                 ELSE LET a == append_batch(c.w, job_id, s.result.value)
                      IN  IF IsRaise(a.result) THEN a ELSE Run(a.w, Returned(job_id)) :
                    c \in close_job(s.w, job_id)} :
                s \in {submit_batch(w, job_id, soql, code) : code \in SubmitCodes(w, job_id)}}

query(w, soql) ==
    UNION {IF IsRaise(j.result) THEN {j} ELSE query_submit(j.w, j.result.value, soql) :
                j \in create_job(w)}

\* the loop of bulk_csv_operation over the chunks, from chunk c
RECURSIVE bulk_csv_loop(_, _, _, _)
bulk_csv_loop(w, job_id, chunks, c) ==
    IF c > Len(chunks)
    THEN {Run(w, Returned("None"))}
    ELSE UNION {IF IsRaise(s.result)
                THEN {s}
                ELSE LET a == append_batch(s.w, job_id, s.result.value)
                     IN  IF IsRaise(a.result)
                         THEN {a}
                         ELSE bulk_csv_loop(a.w, job_id, chunks, c + 1) :
                    s \in {submit_batch(w, job_id, chunks[c], code) :
                                code \in SubmitCodes(w, job_id)}}

bulk_csv_operation(w, job_id, in_df, do_close) ==
    UNION {IF IsRaise(l.result)
           THEN {l}
           ELSE IF do_close
           THEN {IF IsRaise(c.result)
                 THEN c
                 ELSE Run(c.w, Returned(ODictGet(c.w.batches, job_id))) :
                    c \in close_job(l.w, job_id)}
           ELSE {Run(l.w, Returned(ODictGet(l.w.batches, job_id)))} :
                l \in bulk_csv_loop(w, job_id, df_chunks(in_df, w.batch_size), 1)}

-----------------------------------------------------------------------------
(* Collecting results *)

ResultId(n) == <<"result", n>>
ResultIds == {ResultId(n) : n \in 1..MaxResults}

ResultListUrl(job_id, batch_id) == <<"job", job_id, "batch", batch_id, "result">>
ResultUrl(job_id, batch_id, result_id) ==
    <<"job", job_id, "batch", batch_id, "result", result_id>>

IndexError == [type |-> "IndexError"]
ValueError == [type |-> "ValueError", message |-> "No objects to concatenate"]
EmptyDataError == [type |-> "EmptyDataError"]

\* the <result-list> documents the remote system may answer with: the segment
\* ids of a query result, each at most once, in an order of its choosing
ResultListBodies ==
    { <<>> }
        \cup { << <<"result", a>> >> : a \in ResultIds }
        \cup { << <<"result", x[1]>>, <<"result", x[2]>> >> :
                    x \in {y \in ResultIds \X ResultIds : y[1] # y[2]} }

\* the CSV text of a result: a header line, then the lines of the rows.  Segment
\* n of a query result holds n rows; the result of a batch holds one row.
SegmentCsv(result_id) ==
    <<"header">> \o [k \in 1..result_id[2] |-> <<"row", result_id, k>>]
BatchResultCsv(batch_id) == <<"header", <<"row", batch_id, 1>>>>

\* pd.read_csv: the first line names the columns, the rows get the labels 0..n-1
read_csv(text) ==
    IF text = <<>>
    THEN Raised(EmptyDataError)
    ELSE Returned([i \in 1..(Len(text) - 1) |-> [label |-> i - 1, row |-> text[i + 1]]])

RECURSIVE concat_frames(_)
concat_frames(objs) == IF objs = <<>> THEN <<>> ELSE Head(objs) \o concat_frames(Tail(objs))

\* pd.concat(results, axis=0): the rows of the frames in list order, labels kept
concat(objs) ==
    IF objs = <<>> THEN Raised(ValueError) ELSE Returned(concat_frames(objs))

\* the ids of a result list taken back to front
result_ids_reversed(body) ==
    LET found == SelectSeq(body, LAMBDA x : x[1] = "result")
    IN  [i \in 1..Len(found) |-> found[Len(found) + 1 - i][2]]

\* tree.iterfind('result'): the text of the result children, in document order
result_ids(body) ==
    LET found == SelectSeq(body, LAMBDA x : x[1] = "result")
    IN  [i \in 1..Len(found) |-> found[i][2]]

\* self.batches[job_id][0]
first_batch(w, job_id) ==
    IF ~ODictHas(w.batches, job_id) THEN Raised(KeyError(job_id))
    ELSE IF ODictGet(w.batches, job_id) = <<>> THEN Raised(IndexError)
    ELSE Returned(ODictGet(w.batches, job_id)[1])

\* lines 270-279 of get_result_ids_for_query: the request for the result list
get_result_ids_fetch(w, job_id, batch_id, resp) ==
    LET w1 == Sent(w, Get(ResultListUrl(job_id, batch_id), resp))
        chk == check_status(resp.status_code)
    IN  IF IsRaise(chk) THEN Run(w1, chk) ELSE Run(w1, Returned(result_ids(resp.body)))

get_result_ids_for_query(w, job_id) ==
    LET batch_id == first_batch(w, job_id)
    IN  IF IsRaise(batch_id)
        THEN {Run(w, batch_id)}
        ELSE UNION {IF IsRaise(r.result)
                    THEN {r}
                    ELSE {get_result_ids_fetch(r.w, job_id, batch_id.value, resp) :
                            resp \in Responses(ResultListBodies)} :
                        r \in wait_for_batch(w, batch_id.value,
                                             DefaultBatchTimeout, DefaultBatchInterval)}

\* the request for a CSV document, check_status, pd.read_csv
get_csv(w, url, text, status_code) ==
    LET resp == [status_code |-> status_code,
                 body |-> IF status_code >= 400 THEN <<>> ELSE text]
        w1 == Sent(w, Get(url, resp))
        chk == check_status(resp.status_code)
    IN  IF IsRaise(chk) THEN Run(w1, chk) ELSE Run(w1, read_csv(resp.body))

get_query_result(w, job_id, batch_id, result_id) ==
    {get_csv(w, ResultUrl(job_id, batch_id, result_id), SegmentCsv(result_id), status_code) :
        status_code \in StatusCodes}

\* the list comprehension of get_all_query_results, from result id i on, with
\* the frames read so far
RECURSIVE get_query_results_from(_, _, _, _, _, _)
get_query_results_from(w, job_id, batch_id, ids, i, results) ==
    IF i > Len(ids)
    THEN {Run(w, Returned(results))}
    ELSE UNION {IF IsRaise(r.result)
                THEN {r}
                ELSE get_query_results_from(r.w, job_id, batch_id, ids, i + 1,
                                            Append(results, r.result.value)) :
                    r \in get_query_result(w, job_id, batch_id, ids[i])}

\* lines 298-305: the job status for the log, then pd.concat
summarize_and_concat(w, job_id, results) ==
    {IF IsRaise(s.result) THEN s ELSE Run(s.w, concat(results)) :
        s \in get_status(w, job_id, "job", FALSE)}

get_all_query_results(w, job_id) ==
    LET batch_id == first_batch(w, job_id)
    IN  IF IsRaise(batch_id)
        THEN {Run(w, batch_id)}
        ELSE UNION {IF IsRaise(l.result)
                    THEN {l}
                    ELSE UNION {IF IsRaise(r.result)
                                THEN {r}
                                ELSE summarize_and_concat(r.w, job_id, r.result.value) :
                                    r \in get_query_results_from(l.w, job_id, batch_id.value,
                                                                 l.result.value, 1, <<>>)} :
                        l \in get_result_ids_for_query(w, job_id)}

\* get_bulk_csv_operation_result: the batch status for the log, then the result
get_bulk_csv_operation_result(w, job_id, batch_id) ==
    UNION {IF IsRaise(s.result)
           THEN {s}
           ELSE {get_csv(s.w, ResultListUrl(job_id, batch_id), BatchResultCsv(batch_id),
                         status_code) : status_code \in StatusCodes} :
                s \in get_status(w, batch_id, "batch", FALSE)}

\* the list comprehension of get_bulk_csv_operation_results, from batch i on
RECURSIVE get_bulk_csv_results_from(_, _, _, _, _)
get_bulk_csv_results_from(w, job_id, bs, i, results) ==
    IF i > Len(bs)
    THEN {Run(w, Returned(results))}
    ELSE UNION {IF IsRaise(r.result)
                THEN {r}
                ELSE get_bulk_csv_results_from(r.w, job_id, bs, i + 1,
                                               Append(results, r.result.value)) :
                    r \in get_bulk_csv_operation_result(w, job_id, bs[i])}

get_bulk_csv_operation_results(w, job_id) ==
    UNION {IF IsRaise(d.result)
           THEN {d}
           ELSE UNION {IF IsRaise(r.result)
                       THEN {r}
                       ELSE summarize_and_concat(r.w, job_id, r.result.value) :
                            r \in get_bulk_csv_results_from(d.w, job_id,
                                                            ODictGet(d.w.batches, job_id),
                                                            1, <<>>)} :
                d \in wait_for_job(w, job_id, DefaultJobTimeout, DefaultJobInterval)}

-----------------------------------------------------------------------------
(* The state machine *)

Init ==
    /\ jobs = <<>>
    /\ batches = <<>>
    /\ job_statuses = <<>>
    /\ batch_statuses = <<>>
    /\ batch_size = BatchSize
    /\ remote = [jobs |-> 0, batches |-> 0]
    /\ issued = {}
    /\ instance = 1
    /\ call = NoCall

\* the call op(args) ran as `run`
Commit(op, args, run) ==
    /\ jobs' = run.w.jobs
    /\ batches' = run.w.batches
    /\ job_statuses' = run.w.job_statuses
    /\ batch_statuses' = run.w.batch_statuses
    /\ batch_size' = run.w.batch_size
    /\ remote' = run.w.remote
    /\ issued' = run.w.issued
    /\ instance' = run.w.self
    /\ call' = Call(op, args, run.result, run.w.trace)

CreateJob ==
    /\ remote.jobs < MaxJobs
    /\ \E run \in create_job(World) : Commit("create_job", <<>>, run)

Query ==
    /\ remote.jobs < MaxJobs
    /\ remote.batches < MaxBatches
    /\ \E run \in query(World, "soql") : Commit("query", <<"soql">>, run)

BulkCsvOperation ==
    \E job_id \in JobIds, n \in 0..MaxRows, do_close \in BOOLEAN :
        /\ remote.batches + Len(df_chunks(DataFrame(n), batch_size)) <= MaxBatches
        /\ \E run \in bulk_csv_operation(World, job_id, DataFrame(n), do_close) :
                Commit("bulk_csv_operation", <<job_id, DataFrame(n), do_close>>, run)

LookupJobId ==
    \E batch_id \in BatchIds :
        \E run \in {Run(World, lookup_job_id(World, batch_id))} :
            Commit("lookup_job_id", <<batch_id>>, run)

GetStatus ==
    \E obj_id \in JobIds \cup BatchIds, obj_type \in {"job", "batch"}, reload \in BOOLEAN :
        \E run \in get_status(World, obj_id, obj_type, reload) :
            Commit("get_status", <<obj_id, obj_type, reload>>, run)

IsBatchDone ==
    \E batch_id \in BatchIds :
        \E run \in is_batch_done(World, batch_id) :
            Commit("is_batch_done", <<batch_id>>, run)

IsJobDone ==
    \E job_id \in JobIds :
        \E run \in is_job_done(World, job_id) :
            Commit("is_job_done", <<job_id>>, run)

\* job creation, batch submission and the status methods.  The wait loops and
\* the result collectors make many requests per call, each with several possible
\* answers; they run in specifications of their own further down, next to the
\* methods that write what they read.
Next ==
    \/ CreateJob
    \/ Query
    \/ BulkCsvOperation
    \/ LookupJobId
    \/ GetStatus
    \/ IsBatchDone
    \/ IsJobDone

Spec == Init /\ [][Next]_vars

-----------------------------------------------------------------------------
(* The chunker alone, on larger datasets *)

InitChunks ==
    /\ jobs = <<>>
    /\ batches = <<>>
    /\ job_statuses = <<>>
    /\ batch_statuses = <<>>
    /\ batch_size \in 1..MaxChunkBatchSize
    /\ remote = [jobs |-> 0, batches |-> 0]
    /\ issued = {}
    /\ instance = 1
    /\ call = NoCall

DfChunks ==
    \E n \in 0..MaxChunkRows :
        \E run \in {Run(World, Returned(df_chunks(DataFrame(n), batch_size)))} :
            Commit("df_chunks", <<DataFrame(n)>>, run)

NextChunks == DfChunks

SpecChunks == InitChunks /\ [][NextChunks]_vars

-----------------------------------------------------------------------------
(* The registry alone: the methods that write jobs and batches, and the lookup. *)
(* No other method assigns to jobs or batches, so the registry takes the same   *)
(* values here as under Spec.                                                    *)

NextRegistry ==
    \/ CreateJob
    \/ Query
    \/ BulkCsvOperation
    \/ LookupJobId

SpecRegistry == Init /\ [][NextRegistry]_vars

-----------------------------------------------------------------------------
(* The job-level done-check: is_job_done with the methods that write what it    *)
(* reads.  is_job_done reads batches and batch_statuses; get_status and         *)
(* is_batch_done called on their own write job_statuses only, which              *)
(* is_job_done never reads.                                                      *)

NextJobDone ==
    \/ CreateJob
    \/ Query
    \/ BulkCsvOperation
    \/ IsJobDone

SpecJobDone == Init /\ [][NextJobDone]_vars

-----------------------------------------------------------------------------
(* The wait loops, with query, which registers jobs of one batch, and the two   *)
(* done-checks a caller makes after a wait.                                      *)

WaitForBatch ==
    \E batch_id \in BatchIds, timeout \in 0..MaxTimeout, sleep_interval \in 1..MaxInterval :
        \E run \in wait_for_batch(World, batch_id, timeout, sleep_interval) :
            Commit("wait_for_batch", <<batch_id, timeout, sleep_interval>>, run)

WaitForJob ==
    \E job_id \in JobIds, timeout \in 0..MaxJobTimeout, sleep_interval \in 1..MaxInterval :
        \E run \in wait_for_job(World, job_id, timeout, sleep_interval) :
            Commit("wait_for_job", <<job_id, timeout, sleep_interval>>, run)

NextWait ==
    \/ Query
    \/ WaitForBatch
    \/ WaitForJob
    \/ IsBatchDone
    \/ IsJobDone

SpecWait == Init /\ [][NextWait]_vars

-----------------------------------------------------------------------------
(* Collecting the result of a query: query registers the one batch of a job,    *)
(* get_all_query_results reads the registry and reads and writes job_statuses.   *)

GetResultIdsForQuery ==
    \E job_id \in JobIds :
        \E run \in get_result_ids_for_query(World, job_id) :
            Commit("get_result_ids_for_query", <<job_id>>, run)

GetQueryResult ==
    \E job_id \in JobIds, batch_id \in BatchIds, result_id \in ResultIds :
        \E run \in get_query_result(World, job_id, batch_id, result_id) :
            Commit("get_query_result", <<job_id, batch_id, result_id>>, run)

GetAllQueryResults ==
    \E job_id \in JobIds :
        \E run \in get_all_query_results(World, job_id) :
            Commit("get_all_query_results", <<job_id>>, run)

NextQueryResults ==
    \/ Query
    \/ GetAllQueryResults

SpecQueryResults == Init /\ [][NextQueryResults]_vars

\* the three methods that collect a query result, each called on its own
NextQueryCollect ==
    \/ Query
    \/ GetResultIdsForQuery
    \/ GetQueryResult
    \/ GetAllQueryResults

SpecQueryCollect == Init /\ [][NextQueryCollect]_vars

-----------------------------------------------------------------------------
(* Collecting the results of a bulk CSV operation *)

GetBulkCsvOperationResult ==
    \E job_id \in JobIds, batch_id \in BatchIds :
        \E run \in get_bulk_csv_operation_result(World, job_id, batch_id) :
            Commit("get_bulk_csv_operation_result", <<job_id, batch_id>>, run)

GetBulkCsvOperationResults ==
    \E job_id \in JobIds :
        \E run \in get_bulk_csv_operation_results(World, job_id) :
            Commit("get_bulk_csv_operation_results", <<job_id>>, run)

NextCsvResults ==
    \/ CreateJob
    \/ BulkCsvOperation
    \/ GetBulkCsvOperationResults

SpecCsvResults == Init /\ [][NextCsvResults]_vars

\* the result of one batch collected on its own, without a wait
NextCsvCollect ==
    \/ CreateJob
    \/ BulkCsvOperation
    \/ GetBulkCsvOperationResult

SpecCsvCollect == Init /\ [][NextCsvCollect]_vars

-----------------------------------------------------------------------------
(* Several SalesforceBulkAPI objects.  The specifications above call the methods *)
(* of one object; here every call picks the object it is made on.  __init__      *)
(* assigns session_id, endpoint, batch_size and _logger to the object; jobs,     *)
(* job_statuses, batches and batch_statuses are attributes of the class, which   *)
(* the methods change in place (append, item assignment) and never rebind on     *)
(* the object.  The objects are constructed with the same batch_size.            *)

Instances == 1..NumInstances

\* the names __init__ binds on the object itself
InstanceAttributes == {"session_id", "endpoint", "batch_size", "_logger"}

\* the world a method called on object inst runs in
WorldOf(inst) == [World EXCEPT !.self = inst]

InstanceCreateJob ==
    /\ remote.jobs < MaxJobs
    /\ \E inst \in Instances :
            \E run \in create_job(WorldOf(inst)) : Commit("create_job", <<>>, run)

InstanceQuery ==
    /\ remote.jobs < MaxJobs
    /\ remote.batches < MaxBatches
    /\ \E inst \in Instances :
            \E run \in query(WorldOf(inst), "soql") : Commit("query", <<"soql">>, run)

InstanceBulkCsvOperation ==
    \E inst \in Instances, job_id \in JobIds, n \in 0..MaxRows, do_close \in BOOLEAN :
        /\ remote.batches + Len(df_chunks(DataFrame(n), batch_size)) <= MaxBatches
        /\ \E run \in bulk_csv_operation(WorldOf(inst), job_id, DataFrame(n), do_close) :
                Commit("bulk_csv_operation", <<job_id, DataFrame(n), do_close>>, run)

InstanceGetStatus ==
    \E inst \in Instances, obj_id \in JobIds \cup BatchIds, obj_type \in {"job", "batch"},
       reload \in BOOLEAN :
        \E run \in get_status(WorldOf(inst), obj_id, obj_type, reload) :
            Commit("get_status", <<obj_id, obj_type, reload>>, run)

NextInstances ==
    \/ InstanceCreateJob
    \/ InstanceQuery
    \/ InstanceBulkCsvOperation
    \/ InstanceGetStatus

SpecInstances == Init /\ [][NextInstances]_vars

-----------------------------------------------------------------------------
(* Vocabulary of the properties *)

\* batch_id is in the batch list the registry keeps for job_id
Owns(job_id, batch_id) ==
    ODictHas(batches, job_id) /\ SeqHas(ODictGet(batches, job_id), batch_id)

Owners(batch_id) == {job_id \in JobIds : Owns(job_id, batch_id)}

\* the terminal error states of a batch, as the remote system names them
ErrorTerminalStates == {"Failed", "NotProcessed"}

\* the state an answered status request reported, "" if it reported none
ReportedState(ev) ==
    IF ev.reply.status_code < 400 /\ "state" \in DOMAIN parse_xml(ev.reply.body)
    THEN parse_xml(ev.reply.body)["state"]
    ELSE ""

ReportedMessage(ev) ==
    IF ev.reply.status_code < 400 /\ "stateMessage" \in DOMAIN parse_xml(ev.reply.body)
    THEN parse_xml(ev.reply.body)["stateMessage"]
    ELSE ""

IsStatusQuery(ev) == ev.method = "GET" /\ Len(ev.url) \in {2, 4}
IsStatusQueryFor(ev, obj_id) == IsStatusQuery(ev) /\ ev.url[Len(ev.url)] = obj_id

ShowsCompleted(cache, obj_id) ==
    /\ obj_id \in DOMAIN cache
    /\ "state" \in DOMAIN cache[obj_id]
    /\ cache[obj_id]["state"] = "Completed"

RECURSIVE Concat(_)
Concat(ss) == IF ss = <<>> THEN <<>> ELSE Head(ss) \o Concat(Tail(ss))

CeilDiv(n, b) == (n + b - 1) \div b

\* the number of time.sleep calls in a trace
Sleeps(trace) == Cardinality({i \in 1..Len(trace) : trace[i].method = "SLEEP"})

\* every status query of the call was answered, with a pending or a Completed state
AnsweredPendingOrCompleted(c) ==
    \A i \in 1..Len(c.trace) :
        IsStatusQuery(c.trace[i]) =>
            ReportedState(c.trace[i]) \in PENDING_STATES \cup {"Completed"}

\* the call queried batch_id, and every answer about it reported a pending state
StaysPending(c, batch_id) ==
    /\ \E i \in 1..Len(c.trace) : IsStatusQueryFor(c.trace[i], batch_id)
    /\ \A i \in 1..Len(c.trace) :
            IsStatusQueryFor(c.trace[i], batch_id) =>
                ReportedState(c.trace[i]) \in PENDING_STATES

IsWait(c) == c.op \in {"wait_for_batch", "wait_for_job"}

\* a wait during which some batch stayed pending and nothing else went wrong
WaitedOnPending(c) ==
    /\ IsWait(c)
    /\ AnsweredPendingOrCompleted(c)
    /\ \E batch_id \in BatchIds : StaysPending(c, batch_id)

IsResultListRequest(ev) == ev.method = "GET" /\ Len(ev.url) = 5
IsSegmentRequest(ev) == ev.method = "GET" /\ Len(ev.url) = 6

\* the segment ids an answered result-list request listed, in document order
Listed(ev) == [k \in 1..Len(ev.reply.body) |-> ev.reply.body[k][2]]

\* the segment ids a trace requested, in request order
SegmentsFetched(trace) ==
    LET reqs == SelectSeq(trace, IsSegmentRequest)
    IN  [k \in 1..Len(reqs) |-> reqs[k].url[6]]

\* the rows the remote system holds for a segment
RemoteRows(result_id) == Tail(SegmentCsv(result_id))

RowsOf(frame) == [k \in 1..Len(frame) |-> frame[k].row]

IsPrefix(s, t) == Len(s) <= Len(t) /\ \A k \in 1..Len(s) : s[k] = t[k]

\* the data of the batch submissions of a trace, in request order
ChunkPosts(trace) ==
    LET posts == SelectSeq(trace, LAMBDA ev : ev.method = "POST" /\ Len(ev.url) = 3)
    IN  [k \in 1..Len(posts) |-> posts[k].data]

\* the batches whose result a trace requested, in request order
ResultRequests(trace) ==
    LET reqs == SelectSeq(trace, IsResultListRequest)
    IN  [k \in 1..Len(reqs) |-> reqs[k].url[4]]

\* every job keeps its batch list as a prefix of its next batch list
BatchListsGrow ==
    \A i \in 1..Len(batches) :
        /\ ODictHas(batches', batches[i].key)
        /\ IsPrefix(batches[i].val, ODictGet(batches', batches[i].key))

\* a bulk_csv_operation on a registered job posts the chunks in order, appends the
\* ids the remote system returned in that order, and returns the job's list
BulkAppendsInOrder ==
    (call'.op = "bulk_csv_operation" /\ ODictHas(batches, call'.args[1])) =>
        LET job_id == call'.args[1]
            chunks == df_chunks(call'.args[2], batch_size)
            posts == ChunkPosts(call'.trace)
            n == remote'.batches - remote.batches
        IN  /\ IsPrefix(posts, chunks)
            /\ ODictGet(batches', job_id)
                 = ODictGet(batches, job_id) \o [k \in 1..n |-> BatchId(remote.batches + k)]
            /\ IsReturn(call'.result) =>
                /\ posts = chunks
                /\ n = Len(chunks)
                /\ call'.result.value = ODictGet(batches', job_id)

\* get_bulk_csv_operation_results requests the results of the job's batches in
\* list order, one each, and returns their rows in that order
ResultsInListOrder ==
    call'.op = "get_bulk_csv_operation_results" =>
        LET job_id == call'.args[1]
            bs == IF ODictHas(batches, job_id) THEN ODictGet(batches, job_id) ELSE <<>>
            reqs == ResultRequests(call'.trace)
        IN  /\ IsPrefix(reqs, bs)
            /\ IsReturn(call'.result) =>
                /\ reqs = bs
                /\ RowsOf(call'.result.value) = [k \in 1..Len(bs) |-> <<"row", bs[k], 1>>]

\* the status code of the answer to the job-creation request of a create_job call
CreateStatus(c) == c.trace[1].reply.status_code

\* the call left the set of known jobs and every batch list as they were
RegistersNothing == jobs' = jobs /\ batches' = batches

\* the call registered one new job id, with an empty batch list
RegistersOneJob ==
    /\ Len(jobs') = Len(jobs) + 1
    /\ \A i \in 1..Len(jobs) : jobs'[i] = jobs[i]
    /\ ~ODictHas(batches, jobs'[Len(jobs')])
    /\ batches' = ODictPut(batches, jobs'[Len(jobs')], <<>>)

IsCollector(c) ==
    c.op \in {"get_result_ids_for_query", "get_all_query_results",
              "get_bulk_csv_operation_results"}

\* the status query about batch_id that was the last one before request i of the
\* trace reported the batch Completed
LastPolledCompleted(trace, i, batch_id) ==
    \E j \in 1..(i - 1) :
        /\ IsStatusQueryFor(trace[j], batch_id)
        /\ ReportedState(trace[j]) = "Completed"
        /\ \A k \in (j + 1)..(i - 1) : ~IsStatusQueryFor(trace[k], batch_id)

\* what reading attribute `name` on object inst gives: the object's own binding if
\* __init__ made one, the class attribute otherwise
SeenThrough(inst, name) ==
    IF name \in InstanceAttributes
    THEN [batch_size |-> batch_size][name]
    ELSE [jobs |-> jobs, batches |-> batches, job_statuses |-> job_statuses,
          batch_statuses |-> batch_statuses][name]

\* the jobs, batch lists and cached statuses seen through object inst
RegistryAndCaches(inst) ==
    [name \in {"jobs", "batches", "job_statuses", "batch_statuses"} |->
        SeenThrough(inst, name)]

\* the batches a wait polls: the batch itself, or the batch list of the job
WaitedBatches(c) ==
    IF c.op = "wait_for_batch"
    THEN IF Owners(c.args[1]) # {} THEN <<c.args[1]>> ELSE <<>>
    ELSE IF ODictHas(batches, c.args[1]) THEN ODictGet(batches, c.args[1]) ELSE <<>>

\* the number of done-checks of a wait: every done-check starts with a status
\* query about the first batch it polls
DoneChecks(c) ==
    Cardinality({i \in 1..Len(c.trace) : IsStatusQueryFor(c.trace[i], WaitedBatches(c)[1])})

-----------------------------------------------------------------------------
(* Properties *)

\* C1: whenever the status query made by is_batch_done reports the batch Failed or
\* NotProcessed, is_batch_done raises BulkBatchFailed with the job that owns the
\* batch, the batch id and the remote state message, and no cache entry of the
\* batch shows Completed afterwards.
C1_ErrorStateRaisesBatchFailed ==
    call.op = "is_batch_done" =>
        \A i \in 1..Len(call.trace) :
            (/\ IsStatusQueryFor(call.trace[i], call.args[1])
             /\ ReportedState(call.trace[i]) \in ErrorTerminalStates)
            => /\ IsRaise(call.result)
               /\ call.result.exc.type = "BulkBatchFailed"
               /\ Owns(call.result.exc.job_id, call.args[1])
               /\ call.result.exc.batch_id = call.args[1]
               /\ call.result.exc.state_message = ReportedMessage(call.trace[i])
               /\ ~ShowsCompleted(job_statuses, call.args[1])
               /\ ~ShowsCompleted(batch_statuses, call.args[1])

\* C2: once is_batch_done(b) has observed Completed and returned true, the next
\* is_batch_done(b) returns true without a remote status query.
C2_CompletedNeverRepolled ==
    [][(/\ call.op = "is_batch_done"
        /\ call.result = Returned(TRUE)
        /\ call'.op = "is_batch_done"
        /\ call'.args = call.args)
       => (call'.result = Returned(TRUE) /\ call'.trace = <<>>)]_vars

\* C3: after a get_status(id, kind) that fetched and stored a status record, a
\* get_status(id, kind, reload=False) returns that record and sends no request.
C3_StoredStatusIsReused ==
    [][(/\ call.op = "get_status"
        /\ IsReturn(call.result)
        /\ call'.op = "get_status"
        /\ call'.args = <<call.args[1], call.args[2], FALSE>>)
       => (call'.result = call.result /\ call'.trace = <<>>)]_vars

\* C4: the chunks of df_chunks, concatenated in order, are the dataset: every row
\* is in exactly one chunk, in the original order.
C4_ChunksReproduceDataset ==
    call.op = "df_chunks" => Concat(call.result.value) = call.args[1]

\* C5: every chunk of df_chunks has at most batch_size rows.
C5_ChunkAtMostBatchSize ==
    call.op = "df_chunks" =>
        \A c \in 1..Len(call.result.value) : Len(call.result.value[c]) <= batch_size

\* C6: for N >= 1 rows df_chunks yields exactly ceil(N / batch_size) chunks, none
\* of them empty; for N = 0 it yields no chunk or one empty chunk.
C6_ChunkCountIsCeiling ==
    call.op = "df_chunks" =>
        LET n == Len(call.args[1])
            chunks == call.result.value
        IN  IF n >= 1
            THEN /\ Len(chunks) = CeilDiv(n, batch_size)
                 /\ \A c \in 1..Len(chunks) : chunks[c] # <<>>
            ELSE chunks \in {<<>>, << <<>> >>}

\* C7: every batch id the remote system returned for a batch submission is in the
\* batch list of its job, and lookup_job_id finds that job for it.
C7_IssuedBatchIsRegistered ==
    \A p \in issued :
        /\ Owns(p[1], p[2])
        /\ lookup_job_id(World, p[2]) = Returned(p[1])

\* C8: lookup_job_id returns the job a batch id was appended to, for every batch id
\* appended to one job, and raises the unknown-batch error for every batch id that
\* was never appended.
C8_LookupFindsOwner ==
    /\ \A b \in BatchIds :
        /\ \A j \in JobIds :
                Owners(b) = {j} => lookup_job_id(World, b) = Returned(j)
        /\ Owners(b) = {} => lookup_job_id(World, b) = Raised(UnknownBatch(b))
    /\ call.op = "lookup_job_id" =>
        /\ \A j \in JobIds : Owners(call.args[1]) = {j} => call.result = Returned(j)
        /\ Owners(call.args[1]) = {} => call.result = Raised(UnknownBatch(call.args[1]))

C8_Witness ==
    /\ call.op = "lookup_job_id"
    /\ call.result = Returned(JobId(2))
    /\ Owners(call.args[1]) = {JobId(2)}
    /\ \E b \in BatchIds : Owners(b) = {JobId(1)}

\* C9: is_job_done checks the job's batches in registration order; at the first
\* batch that is not done it returns false without a status query for any batch
\* registered after it; it returns true only if every batch was found done.
C9_JobDoneShortCircuits ==
    (call.op = "is_job_done" /\ ODictHas(batches, call.args[1])) =>
        LET bs == ODictGet(batches, call.args[1])
            t == call.trace
        IN  /\ Len(t) <= Len(bs)
            /\ \A i \in 1..Len(t) : IsStatusQueryFor(t[i], bs[i])
            /\ \A i \in 1..(Len(t) - 1) : ReportedState(t[i]) = "Completed"
            /\ call.result = Returned(FALSE) =>
                    /\ Len(t) >= 1
                    /\ ReportedState(t[Len(t)]) # "Completed"
            /\ call.result = Returned(TRUE) =>
                    /\ Len(t) = Len(bs)
                    /\ \A i \in 1..Len(t) : ReportedState(t[i]) = "Completed"

C9_Witness ==
    /\ call.op = "is_job_done"
    /\ ODictHas(batches, call.args[1])
    /\ Len(ODictGet(batches, call.args[1])) >= 2
    /\ call.result = Returned(FALSE)
    /\ Len(call.trace) = 1
    /\ ReportedState(call.trace[1]) = "Queued"

\* C10: is_job_done raises the job-has-no-batches error whenever the job has no
\* registered batches, also for a job create_job has registered with an empty
\* list; it never returns true for such a job.
C10_NoBatchesRaises ==
    (/\ call.op = "is_job_done"
     /\ \A b \in BatchIds : ~Owns(call.args[1], b))
    => call.result = Raised(NoBatches(call.args[1]))


\* C11: a wait during which a batch stays pending returns normally, without
\* raising, once the time slept has reached the timeout; a done-check made right
\* after it on the batch (or on a job that holds it), while the batch is still
\* pending, returns False.
C11_TimeoutIsSilent ==
    [][/\ WaitedOnPending(call') =>
            /\ call'.result = Returned("None")
            /\ Sleeps(call'.trace) * call'.args[3] >= call'.args[2]
       /\ \A batch_id \in BatchIds :
            (/\ WaitedOnPending(call)
             /\ StaysPending(call, batch_id)
             /\ call'.op \in {"is_batch_done", "is_job_done"}
             /\ AnsweredPendingOrCompleted(call')
             /\ StaysPending(call', batch_id))
                => call'.result = Returned(FALSE)]_vars

\* wait_for_job slept through its timeout on a job whose batch stayed Queued, and
\* returned
C11_Witness ==
    /\ call.op = "wait_for_job"
    /\ WaitedOnPending(call)
    /\ Sleeps(call.trace) = 1
    /\ call.result = Returned("None")

\* C12: get_all_query_results requests the segments the remote system listed, each
\* once and in the listed order, after the list request; when it returns, it has
\* requested all of them and the rows it returns are the rows of the segments
\* concatenated in the listed order.
C12_SegmentsInListedOrder ==
    call.op = "get_all_query_results" =>
        \A i \in 1..Len(call.trace) :
            (IsResultListRequest(call.trace[i]) /\ call.trace[i].reply.status_code < 400) =>
                LET ids == Listed(call.trace[i])
                    fetched == SegmentsFetched(call.trace)
                IN  /\ IsPrefix(fetched, ids)
                    /\ \A j \in 1..i : ~IsSegmentRequest(call.trace[j])
                    /\ IsReturn(call.result) =>
                        /\ fetched = ids
                        /\ RowsOf(call.result.value)
                             = Concat([k \in 1..Len(ids) |-> RemoteRows(ids[k])])

\* the remote system listed segment 2 before segment 1 and the call returned
C12_Witness ==
    /\ call.op = "get_all_query_results"
    /\ IsReturn(call.result)
    /\ \E i \in 1..Len(call.trace) :
            /\ IsResultListRequest(call.trace[i])
            /\ Listed(call.trace[i]) = <<ResultId(2), ResultId(1)>>

\* C13: the batch list of a job only grows at its end; bulk_csv_operation posts
\* the chunks in order, appends the returned batch ids in that order and returns
\* the list; get_bulk_csv_operation_results requests one result per registered
\* batch, in list order.
C13_BatchListAppendOnly ==
    [][BatchListsGrow /\ BulkAppendsInOrder /\ ResultsInListOrder]_vars

\* the results of a job of two batches were collected
C13_Witness ==
    /\ call.op = "get_bulk_csv_operation_results"
    /\ IsReturn(call.result)
    /\ ODictHas(batches, call.args[1])
    /\ Len(ODictGet(batches, call.args[1])) = 2
    /\ Len(call.result.value) = 2

\* C14 as claimed: create_job raises BulkApiError on every answer whose status is
\* not in 200..299, and then registers nothing; it registers a job id only after
\* an answer with a status in 200..299.
C14_NonSuccessRaisesApiError ==
    [][call'.op = "create_job" =>
        /\ CreateStatus(call') \notin 200..299 =>
                /\ call'.result = Raised(BulkApiError(CreateStatus(call')))
                /\ RegistersNothing
        /\ ~RegistersNothing => CreateStatus(call') \in 200..299]_vars

\* C14 as the code has it: create_job raises BulkApiError on every answer whose
\* status is 400 or above, and then registers nothing; whenever it raises it
\* registers nothing; it registers a job id, with an empty batch list, only after
\* an answer with a status below 400, and then returns that id.
C14_ErrorStatusRaisesApiError ==
    [][call'.op = "create_job" =>
        /\ CreateStatus(call') >= 400 =>
                call'.result = Raised(BulkApiError(CreateStatus(call')))
        /\ IsRaise(call'.result) => RegistersNothing
        /\ IsReturn(call'.result) =>
                /\ CreateStatus(call') < 400
                /\ RegistersOneJob
                /\ call'.result.value = jobs'[Len(jobs')]]_vars

\* a job-creation request was refused with 400 while one job was registered
C14_Witness ==
    /\ call.op = "create_job"
    /\ CreateStatus(call) = 400
    /\ call.result = Raised(BulkApiError(400))
    /\ Len(jobs) = 1

\* C15: when a status query made inside wait_for_batch or wait_for_job reports a
\* batch Failed or NotProcessed, that query is the last thing the call does (no
\* further status query, no further sleep) and the call raises BulkBatchFailed for
\* that batch, with the job that owns it and the remote state message.
C15_BatchFailedEndsWait ==
    IsWait(call) =>
        \A i \in 1..Len(call.trace) :
            (/\ IsStatusQuery(call.trace[i])
             /\ ReportedState(call.trace[i]) \in ErrorTerminalStates)
                => /\ i = Len(call.trace)
                   /\ call.result = Raised(BulkBatchFailed(call.trace[i].url[2],
                                                          call.trace[i].url[4],
                                                          ReportedMessage(call.trace[i])))

\* C16: a collector sends a result request (the segment list of a query, the
\* result of a CSV batch) only when, for every batch of the job, the last status
\* query before the request reported the batch Completed.
C16_CollectorsWaitBeforeFetch ==
    (IsCollector(call) /\ ODictHas(batches, call.args[1])) =>
        \A i \in 1..Len(call.trace) :
            IsResultListRequest(call.trace[i]) =>
                \A k \in 1..Len(ODictGet(batches, call.args[1])) :
                    LastPolledCompleted(call.trace, i, ODictGet(batches, call.args[1])[k])

\* C17: a status query for a batch leaves the job-level cache unchanged, a status
\* query for a job leaves the batch-level cache unchanged, and get_status(x, 'job')
\* answered from the cache never answers for the id x of a batch.
C17_CachesIndependent ==
    [][call'.op = "get_status" =>
        /\ call'.args[2] = "batch" => job_statuses' = job_statuses
        /\ call'.args[2] = "job" => batch_statuses' = batch_statuses
        /\ (call'.args[2] = "job" /\ call'.trace = <<>> /\ IsReturn(call'.result))
                => call'.args[1] \notin BatchIds]_vars

\* C18: a create_job, query, bulk_csv_operation or get_status made on one object
\* leaves the jobs, batch lists and cached statuses seen through every other
\* object unchanged.
C18_InstancesDoNotInterfere ==
    [][call'.op \in {"create_job", "query", "bulk_csv_operation", "get_status"} =>
        \A other \in Instances \ {instance'} :
            RegistryAndCaches(other)' = RegistryAndCaches(other)]_vars

\* C19: a wait with timeout T >= 0 and sleep interval I > 0 on a registered batch
\* (a job with a batch) makes at least one done-check, at most ceil(T/I) + 1
\* done-checks and at most ceil(T/I) sleeps; every sleep follows a status answer
\* that did not report Completed and is followed by another done-check, so the
\* call never sleeps after a done-check that found the batch or job done.
C19_WaitIsBounded ==
    (IsWait(call) /\ WaitedBatches(call) # <<>>) =>
        LET T == call.args[2]
            I == call.args[3]
        IN  /\ DoneChecks(call) >= 1
            /\ DoneChecks(call) <= CeilDiv(T, I) + 1
            /\ Sleeps(call.trace) <= CeilDiv(T, I)
            /\ \A i \in 1..Len(call.trace) :
                    call.trace[i].method = "SLEEP" =>
                        /\ 1 < i /\ i < Len(call.trace)
                        /\ IsStatusQuery(call.trace[i - 1])
                        /\ ReportedState(call.trace[i - 1]) # "Completed"
                        /\ IsStatusQuery(call.trace[i + 1])

\* wait_for_batch with timeout 2 and interval 1 made its three done-checks
C19_Witness ==
    /\ call.op = "wait_for_batch"
    /\ call.args[2] = 2
    /\ call.args[3] = 1
    /\ DoneChecks(call) = 3
    /\ Sleeps(call.trace) = 2

\* C20: is_job_done raises the no-batches error only for a job id that has no
\* batch list in the registry; for a job with at least one registered batch it
\* returns True or False or raises BulkBatchFailed or BulkApiError.
C20_NoBatchesOnlyWithoutList ==
    call.op = "is_job_done" =>
        /\ call.result = Raised(NoBatches(call.args[1])) => ~ODictHas(batches, call.args[1])
        /\ (ODictHas(batches, call.args[1]) /\ ODictGet(batches, call.args[1]) # <<>>) =>
                \/ call.result \in {Returned(TRUE), Returned(FALSE)}
                \/ /\ IsRaise(call.result)
                   /\ call.result.exc.type \in {"BulkBatchFailed", "BulkApiError"}

====
